---- MODULE Spec2Model ----
(***************************************************************************)
(* A model of the MCP host / client / server of this repository:           *)
(*   mcp_client.py  MCP_Client (connect, disconnect, call_tool, ...)       *)
(*   mcp_host.py    main(): the orchestrator loop                          *)
(*   mcp_server.py  query_db, get_schema, sql_prompt, the SSE application  *)
(*                                                                         *)
(* Text is modelled as a sequence of tokens (a token is a piece of text    *)
(* the code never looks into); "\n" is the line-break token.               *)
(***************************************************************************)
EXTENDS Integers, Sequences, FiniteSets, TLC

\* ---------------------------------------------------------------- bounds
MaxQuestions == 2
MaxPeer == 1
MaxOtherCalls == 1
MaxPeerRequests == 2

\* ------------------------------------------------------------------ text
NL == "\n"

RECURSIVE Join(_, _)
\* sep.join(parts): parts is a sequence of texts
Join(parts, sep) ==
    IF parts = <<>> THEN <<>>
    ELSE IF Len(parts) = 1 THEN parts[1]
    ELSE parts[1] \o <<sep>> \o Join(Tail(parts), sep)

\* str(row) of a result tuple
StrRow(row) == <<"(", row, ")">>

\* str.lower() on the inputs of the model
Lower(s) ==
    CASE s = "Q" -> "q"
      [] s = "Quit" -> "quit"
      [] OTHER -> s

\* variant: a line break is left as it is
JsonEscapeTokenRaw(t) == t

\* json escaping of a token inside a JSON string
JsonEscapeToken(t) ==
    CASE t = NL -> "\\n"
      [] t = "near \"SELEKT\": syntax error" -> "near \\\"SELEKT\\\": syntax error"
      [] t = "table \"order items\" already exists" ->
            "table \\\"order items\\\" already exists"
      [] OTHER -> t

RECURSIVE JsonEscape(_)
JsonEscape(text) ==
    IF text = <<>> THEN <<>> ELSE <<JsonEscapeToken(Head(text))>> \o JsonEscape(Tail(text))

\* the number of lines of a text: its line breaks plus one
LineCount(text) == 1 + Cardinality({i \in 1..Len(text) : text[i] = NL})

\* ------------------------------------------------------------ data store
\* create_database.py: the tables of database.db in the order of sqlite_master,
\* each with its columns (name, type) and its rows: three users, four orders
FixtureStore ==
    << [ name |-> "users",
         cols |-> << <<"id", "INTEGER">>, <<"name", "TEXT">>, <<"age", "INTEGER">>,
                     <<"email", "TEXT">> >>,
         rows |-> << "1, zhangsan, 25", "2, lisi, 30", "3, wangwu, 35" >> ],
       [ name |-> "orders",
         cols |-> << <<"id", "INTEGER">>, <<"user_id", "INTEGER">>,
                     <<"product_name", "TEXT">>, <<"price", "REAL">>,
                     <<"order_date", "TEXT">> >>,
         rows |-> << "1, 1, laptop", "2, 1, phone", "3, 2, tablet", "4, 3, headset" >> ] >>

CreateSpacedTable == "CREATE TABLE \"order items\" (id INTEGER)"

SqlTexts ==
    { "SELECT * FROM users", "SELECT * FROM users WHERE id = 0", "SELEKT",
      CreateSpacedTable }

HasTable(d, n) == \E i \in 1..Len(d) : d[i].name = n

RowsOf(d, n) == d[CHOOSE i \in 1..Len(d) : d[i].name = n].rows

\* cursor.execute(sql) on store d: the rows the cursor holds and the store
\* afterwards, or the error raised. A CREATE TABLE is not inside a
\* transaction, so it is in the file as soon as execute returns.
Execute(d, sql) ==
    CASE sql = "SELECT * FROM users" ->
            IF HasTable(d, "users")
            THEN [ok |-> TRUE, rows |-> RowsOf(d, "users"), err |-> "", store |-> d]
            ELSE [ok |-> FALSE, rows |-> <<>>, err |-> "no such table: users", store |-> d]
      [] sql = "SELECT * FROM users WHERE id = 0" ->
            IF HasTable(d, "users")
            THEN [ok |-> TRUE, rows |-> <<>>, err |-> "", store |-> d]
            ELSE [ok |-> FALSE, rows |-> <<>>, err |-> "no such table: users", store |-> d]
      [] sql = CreateSpacedTable ->
            IF HasTable(d, "order items")
            THEN [ok |-> FALSE, rows |-> <<>>, err |-> "table \"order items\" already exists",
                  store |-> d]
            ELSE [ok |-> TRUE, rows |-> <<>>, err |-> "",
                  store |-> Append(d, [name |-> "order items",
                                       cols |-> << <<"id", "INTEGER">> >>,
                                       rows |-> <<>>])]
      [] OTHER -> [ok |-> FALSE, rows |-> <<>>, err |-> "near \"SELEKT\": syntax error",
                   store |-> d]

\* SELECT name FROM sqlite_master WHERE type='table'; fetchall()
TableNames(d) == [i \in 1..Len(d) |-> d[i].name]

\* PRAGMA table_info(name); fetchall(): the columns, none for an unknown table
TableInfo(d, n) ==
    IF HasTable(d, n) THEN d[CHOOSE i \in 1..Len(d) : d[i].name = n].cols ELSE <<>>

\* variant: the statement empties the store
StoreAfterReadEmptied(d) == <<>>

\* the store after a SELECT on sqlite_master or a PRAGMA table_info: reads
StoreAfterRead(d) == d

\* whether f"PRAGMA table_info({name})" is a statement sqlite parses: the name
\* is put into the statement text unquoted
ParsesUnquoted(n) == n # "order items"

\* ------------------------------------------------------ query_db (server)
RECURSIVE StrRows(_)
StrRows(rows) ==
    IF rows = <<>> THEN <<>> ELSE <<StrRow(Head(rows))>> \o StrRows(Tail(rows))

\* "\n".join(str(row) for row in result)
RowsText(rows) == Join(StrRows(rows), NL)

\* variant: the error text without the marker
ErrorMsgNoMarker(e) == <<e>>

\* error_msg = f"Error: {str(e)}"
ErrorMsg(e) == <<"Error: ", e>>

\* ---------------------------------------------------------------- state
Clients == {"host", "other", "peer"}

VARIABLES
    \* MCP_Client (mcp_client.py)
    session,          \* self.session: "None" or "Session"
    exit_stack,       \* self.exit_stack: the contexts entered, oldest first
    initialized,      \* session.initialize() has completed successfully
    transport,        \* the SSE stream: "closed", "open" or "dead"
    \* main() (mcp_host.py)
    hostPc,           \* the statement main() is at
    tools,            \* tools = await client.list_tools()
    user_question,    \* the last line read by input()
    prompt,           \* the rendered prompt text
    reply,            \* the collaborator's translation reply
    sql_query,        \* sql_args["sql"]
    result,           \* the ToolInvocationResult of call_tool
    yielded,          \* the items the async for over get_resource received
    translate_req,    \* the request last sent to the collaborator to translate
    explain_req,      \* the request last sent to the collaborator to explain
    exc,              \* the exception main()'s handler caught ("none": none)
    \* a second task that uses the same MCP_Client
    otherPc, otherCalls,
    otherOp,          \* the operation the second task is in
    otherLog,         \* how the second task's last operation went
    \* the wire
    inbox,            \* messages posted to the server, not yet read by its loop
    resp,             \* the response delivered to each client
    \* the server (mcp_server.py)
    advertised,       \* the tools registered with the server, in order
    db,               \* database.db
    running,          \* the handler the event loop is executing
    srvInit,          \* the clients whose initialize the server has answered
    peerSent,
    \* history
    runs,             \* per client, the last finished run of query_db
    schemaRuns,       \* per client, the last finished run of get_schema
    nQuestions,       \* questions read that were not the quit signal
    steps,            \* the steps begun for the current question
    excAt,            \* nQuestions and the statement when exc was raised
    connectAttempts,  \* how often connect() opened the SSE stream
    disconnects,      \* how often disconnect() ran
    sentLog           \* the requests the client sent: who, what, initialized?

clientVars == <<session, exit_stack, initialized, transport>>
reqVars == <<yielded, translate_req, explain_req>>
hostVars ==
    <<hostPc, tools, user_question, prompt, reply, sql_query, result, exc, excAt, reqVars>>
otherVars == <<otherPc, otherCalls, otherOp, otherLog>>
wireVars == <<inbox, resp>>
serverVars == <<advertised, db, running, srvInit, peerSent, runs, schemaRuns>>
histVars == <<nQuestions, steps, connectAttempts, disconnects, sentLog>>
vars == <<clientVars, hostVars, otherVars, wireVars, serverVars, histVars>>

NoResp == [kind |-> "none", isError |-> FALSE, content |-> <<>>, tools |-> <<>>]
NoHandler ==
    [pc |-> "none", from |-> "host", sql |-> "", conn |-> "unbound",
     faultAt |-> "none", err |-> "", ret |-> <<>>, rows |-> <<>>,
     tables |-> <<>>, i |-> 0, schema |-> <<>>, before |-> <<>>]
NoRun ==
    [done |-> FALSE, sql |-> "", faultAt |-> "none", conn |-> "unbound",
     raised |-> "", value |-> <<>>, rows |-> <<>>]
NoSchemaRun ==
    [done |-> FALSE, faultAt |-> "none", conn |-> "unbound", raised |-> "",
     value |-> <<>>, tables |-> <<>>, before |-> <<>>, after |-> <<>>]
NoResult == [set |-> FALSE, content |-> <<>>, error_code |-> 0]
NoReply == [tool_calls |-> <<>>]
NoTranslateRequest == [set |-> FALSE, user |-> <<>>, tools |-> <<>>, tool_choice |-> ""]
NoExplainRequest == [set |-> FALSE, user |-> <<>>]
NoAttempt == [op |-> "none", connected |-> FALSE, outcome |-> "none"]

Msg(c, kind, name, arg) == [from |-> c, kind |-> kind, name |-> name, arg |-> arg]

\* ------------------------------------------------- capabilities (server)
\* @mcp.tool query_db(sql: str): the one advertised tool and its input schema
AdvertisedTools ==
    << [ name |-> "query_db", description |-> "run a SQL query",
         properties |-> << [name |-> "sql", type |-> "string", description |-> "",
                            hasDefault |-> FALSE, default |-> "None"] >>,
         required |-> {"sql"} ] >>

\* a tool with an optional parameter
ExportTool ==
    [ name |-> "export", description |-> "export a table",
      properties |-> << [name |-> "table", type |-> "string", description |-> "the table",
                         hasDefault |-> FALSE, default |-> "None"],
                        [name |-> "limit", type |-> "integer", description |-> "",
                         hasDefault |-> TRUE, default |-> "10"] >>,
      required |-> {"table"} ]

\* a tool whose schema lists a property as required and gives it a default
StrictTool ==
    [ name |-> "strict", description |-> "",
      properties |-> << [name |-> "mode", type |-> "string", description |-> "",
                         hasDefault |-> TRUE, default |-> "fast"] >>,
      required |-> {"mode"} ]

\* tool lists a server may advertise in answer to list_tools
ToolCatalogs ==
    { <<>>, AdvertisedTools, AdvertisedTools \o <<ExportTool>>,
      <<ExportTool>> \o AdvertisedTools, <<StrictTool, ExportTool>> }

\* sql_prompt(question): the fixed text with the question embedded
SqlPrompt(question) ==
    << "Translate the question into a SQL query:\nQuestion: ", question,
       "\n\nTables:\n- users(id, name, age, email)\n- orders(id, user_id, product_name, price, order_date)\n\nReturn only the SQLite statement." >>

\* schema.append(f"table {table[0]}:")
HeaderLine(n) == <<"table ", n, ":">>

RECURSIVE ColumnLines(_)
\* for col in columns: schema.append(f"  - {col[1]} ({col[2]})")
ColumnLines(cols) ==
    IF cols = <<>> THEN <<>>
    ELSE << <<"  - ", Head(cols)[1], " (", Head(cols)[2], ")">> >> \o ColumnLines(Tail(cols))

\* a response leaves the server for client c; what the other session is sent
\* goes to that session's stream and is not kept here
Answer(c, r) == resp' = IF c = "peer" THEN resp ELSE [resp EXCEPT ![c] = r]

\* ------------------------------------------------------ query_db, stepwise
\* an exception raised at `step` inside the try: the except clause builds the
\* error text that the handler is then about to return
Raised(h, step, e) ==
    [h EXCEPT !.pc = "finally", !.faultAt = step, !.err = e, !.ret = ErrorMsg(e)]

\* conn = sqlite3.connect("database.db")
QueryConnect ==
    /\ running.pc = "connect"
    /\ \/ running' = [running EXCEPT !.pc = "cursor", !.conn = "open"]
       \/ running' = Raised(running, "connect", "unable to open database file")
    /\ UNCHANGED <<clientVars, hostVars, otherVars, wireVars, db, srvInit, peerSent,
                   runs, advertised, schemaRuns, histVars>>

\* cursor = conn.cursor()
QueryCursor ==
    /\ running.pc = "cursor"
    /\ \/ running' = [running EXCEPT !.pc = "execute"]
       \/ running' = Raised(running, "cursor", "cannot create cursor")
    /\ UNCHANGED <<clientVars, hostVars, otherVars, wireVars, db, srvInit, peerSent,
                   runs, advertised, schemaRuns, histVars>>

\* cursor.execute(sql)
QueryExecute ==
    /\ running.pc = "execute"
    /\ LET r == Execute(db, running.sql) IN
       \/ /\ r.ok
          /\ running' = [running EXCEPT !.pc = "fetchall", !.rows = r.rows]
          /\ db' = r.store
       \/ /\ r.ok
          /\ running' = Raised(running, "execute", "database is locked")
          /\ db' = db
       \/ /\ ~r.ok
          /\ running' = Raised(running, "execute", r.err)
          /\ db' = db
    /\ UNCHANGED <<clientVars, hostVars, otherVars, wireVars, srvInit, peerSent, runs,
                   advertised, schemaRuns, histVars>>

\* result = cursor.fetchall(); return "\n".join(str(row) for row in result)
QueryFetchall ==
    /\ running.pc = "fetchall"
    /\ \/ running' = [running EXCEPT !.pc = "finally",
                                     !.ret = RowsText(running.rows)]
       \/ running' = Raised(running, "fetchall", "disk I/O error")
    /\ UNCHANGED <<clientVars, hostVars, otherVars, wireVars, db, srvInit, peerSent,
                   runs, advertised, schemaRuns, histVars>>

\* the tool result the framework builds from the handler's outcome: a returned
\* string is the content; an exception that left the handler is an error result
ToolResult(raised, value) ==
    IF raised = ""
    THEN [kind |-> "tool", isError |-> FALSE, content |-> <<value>>, tools |-> <<>>]
    ELSE [kind |-> "tool", isError |-> TRUE,
          content |-> << <<"Error executing tool query_db: ", raised>> >>, tools |-> <<>>]

\* finally: conn.close(), then the return (or the exception) leaves the handler
QueryFinally ==
    /\ running.pc = "finally"
    /\ LET raised == IF running.conn = "unbound" THEN "UnboundLocalError: conn" ELSE ""
           conn == IF running.conn = "open" THEN "closed" ELSE running.conn
       IN /\ Answer(running.from, ToolResult(raised, running.ret))
          /\ runs' = [runs EXCEPT ![running.from] =
                        [done |-> TRUE, sql |-> running.sql, faultAt |-> running.faultAt,
                         conn |-> conn, raised |-> raised, value |-> running.ret,
                         rows |-> running.rows]]
    /\ running' = NoHandler
    /\ UNCHANGED <<clientVars, hostVars, otherVars, inbox, db, srvInit, peerSent,
                   advertised, schemaRuns, histVars>>

\* ---------------------------------------------------- get_schema, stepwise
\* the text content the framework makes of the list get_schema returns: the
\* JSON of the list, as one content item
ResourceText(lines) ==
    <<"[">> \o Join([i \in 1..Len(lines) |-> <<"\"">> \o JsonEscape(lines[i]) \o <<"\"">>],
                   ", ")
    \o <<"]">>

\* get_schema has no try: an exception raised at `step` leaves the handler,
\* the statements after it (conn.close() among them) are not executed, and the
\* read is answered with an error
SchemaRaised(step, e) ==
    /\ Answer(running.from,
              [NoResp EXCEPT !.kind = "error", !.isError = TRUE, !.content = << <<e>> >>])
    /\ schemaRuns' = [schemaRuns EXCEPT ![running.from] =
                         [done |-> TRUE, faultAt |-> step, conn |-> running.conn,
                          raised |-> e, value |-> <<>>, tables |-> running.tables,
                          before |-> running.before, after |-> db]]
    /\ running' = NoHandler

\* conn = sqlite3.connect("database.db"); cursor = conn.cursor()
SchemaConnect ==
    /\ running.pc = "s_connect"
    /\ \/ /\ running' = [running EXCEPT !.pc = "s_tables", !.conn = "open"]
          /\ UNCHANGED <<resp, schemaRuns>>
       \/ SchemaRaised("connect", "unable to open database file")
    /\ UNCHANGED <<clientVars, hostVars, otherVars, inbox, db, srvInit, peerSent, runs,
                   advertised, histVars>>

\* cursor.execute("SELECT name FROM sqlite_master WHERE type='table';")
\* tables = cursor.fetchall(); schema = []
SchemaTables ==
    /\ running.pc = "s_tables"
    /\ \/ /\ running' = [running EXCEPT !.pc = "s_table", !.tables = TableNames(db),
                                          !.i = 1, !.schema = <<>>]
          /\ db' = StoreAfterRead(db)
          /\ UNCHANGED <<resp, schemaRuns>>
       \/ /\ SchemaRaised("tables", "database is locked")
          /\ db' = db
    /\ UNCHANGED <<clientVars, hostVars, otherVars, inbox, srvInit, peerSent, runs,
                   advertised, histVars>>

\* one iteration of `for table in tables`: the PRAGMA, the header line and the
\* column lines
SchemaTable ==
    /\ running.pc = "s_table"
    /\ running.i <= Len(running.tables)
    /\ LET n == running.tables[running.i] IN
       IF ~ParsesUnquoted(n)
       THEN /\ SchemaRaised("pragma", "near \"order\": syntax error")
            /\ db' = db
       ELSE /\ running' = [running EXCEPT
                             !.schema = @ \o <<HeaderLine(n)>> \o ColumnLines(TableInfo(db, n)),
                             !.i = @ + 1]
            /\ db' = StoreAfterRead(db)
            /\ UNCHANGED <<resp, schemaRuns>>
    /\ UNCHANGED <<clientVars, hostVars, otherVars, inbox, srvInit, peerSent, runs,
                   advertised, histVars>>

\* after the loop: conn.close(); return schema
SchemaReturn ==
    /\ running.pc = "s_table"
    /\ running.i > Len(running.tables)
    /\ Answer(running.from,
              [NoResp EXCEPT !.kind = "resource", !.content = <<ResourceText(running.schema)>>])
    /\ schemaRuns' = [schemaRuns EXCEPT ![running.from] =
                         [done |-> TRUE, faultAt |-> "none", conn |-> "closed",
                          raised |-> "", value |-> running.schema,
                          tables |-> running.tables,
                          before |-> running.before, after |-> db]]
    /\ running' = NoHandler
    /\ UNCHANGED <<clientVars, hostVars, otherVars, inbox, db, srvInit, peerSent, runs,
                   advertised, histVars>>

\* ------------------------------------------------ the server's event loop
\* The application runs on one event loop (uvicorn.run). query_db is a
\* coroutine without an await: from its first statement to its return the
\* loop executes nothing else, so a message is read only when no handler runs.
SessionOf(c) == IF c = "peer" THEN "peer" ELSE "client"

Dispatchable(kind) ==
    /\ running.pc = "none"
    /\ inbox # <<>>
    /\ Head(inbox).kind = kind

ServerInitialize ==
    /\ Dispatchable("initialize")
    /\ srvInit' = srvInit \cup {SessionOf(Head(inbox).from)}
    /\ Answer(Head(inbox).from, [NoResp EXCEPT !.kind = "init"])
    /\ inbox' = Tail(inbox)
    /\ UNCHANGED <<clientVars, hostVars, otherVars, db, running, peerSent, runs,
                   advertised, schemaRuns, histVars>>

ServerListTools ==
    /\ Dispatchable("list_tools")
    /\ Answer(Head(inbox).from, [NoResp EXCEPT !.kind = "tools", !.tools = advertised])
    /\ inbox' = Tail(inbox)
    /\ UNCHANGED <<clientVars, hostVars, otherVars, db, running, srvInit, peerSent, runs,
                   advertised, schemaRuns, histVars>>

\* read_resource("db://schema"): the loop enters get_schema
ServerReadResource ==
    /\ Dispatchable("read_resource")
    /\ running' = [NoHandler EXCEPT !.pc = "s_connect", !.from = Head(inbox).from,
                                    !.before = db]
    /\ inbox' = Tail(inbox)
    /\ UNCHANGED <<clientVars, hostVars, otherVars, resp, db, srvInit, peerSent, runs,
                   advertised, schemaRuns, histVars>>

ServerGetPrompt ==
    /\ Dispatchable("get_prompt")
    /\ Answer(Head(inbox).from,
              [NoResp EXCEPT !.kind = "prompt", !.content = <<SqlPrompt(Head(inbox).arg)>>])
    /\ inbox' = Tail(inbox)
    /\ UNCHANGED <<clientVars, hostVars, otherVars, db, running, srvInit, peerSent, runs,
                   advertised, schemaRuns, histVars>>

\* call_tool("query_db", {"sql": ...}): the loop enters query_db
ServerCallTool ==
    /\ Dispatchable("call_tool")
    /\ Head(inbox).name = "query_db"
    /\ running' = [NoHandler EXCEPT !.pc = "connect", !.from = Head(inbox).from,
                                    !.sql = Head(inbox).arg]
    /\ inbox' = Tail(inbox)
    /\ UNCHANGED <<clientVars, hostVars, otherVars, resp, db, srvInit, peerSent, runs,
                   advertised, schemaRuns, histVars>>

ServerPing ==
    /\ Dispatchable("ping")
    /\ Answer(Head(inbox).from, [NoResp EXCEPT !.kind = "pong"])
    /\ inbox' = Tail(inbox)
    /\ UNCHANGED <<clientVars, hostVars, otherVars, db, running, srvInit, peerSent, runs,
                   advertised, schemaRuns, histVars>>

\* the read loop takes the next message and dispatches it
ServerDispatch ==
    \/ ServerInitialize
    \/ ServerListTools
    \/ ServerReadResource
    \/ ServerGetPrompt
    \/ ServerCallTool
    \/ ServerPing

\* another session posts a message to the server
PeerSend ==
    /\ peerSent < MaxPeer
    /\ peerSent' = peerSent + 1
    /\ inbox' = Append(inbox, Msg("peer", "ping", "", ""))
    /\ UNCHANGED <<clientVars, hostVars, otherVars, resp, db, running, srvInit, runs,
                   advertised, schemaRuns, histVars>>

\* another session reads db://schema or calls query_db
PeerRequest ==
    /\ peerSent < MaxPeerRequests
    /\ peerSent' = peerSent + 1
    /\ \E m \in {Msg("peer", "read_resource", "db://schema", "")}
                \cup {Msg("peer", "call_tool", "query_db", q) : q \in SqlTexts} :
          inbox' = Append(inbox, m)
    /\ UNCHANGED <<clientVars, hostVars, otherVars, resp, db, running, srvInit, runs,
                   advertised, schemaRuns, histVars>>

\* the SSE stream of the client breaks
TransportDies ==
    /\ transport = "open"
    /\ transport' = "dead"
    /\ UNCHANGED <<session, exit_stack, initialized, hostVars, otherVars, wireVars,
                   serverVars, histVars>>

\* ------------------------------------------------------------ MCP_Client
\* a request leaves the client: posted to the server, and logged
SendAs(c, kind, name, arg, init) ==
    /\ inbox' = Append(inbox, Msg(c, kind, name, arg))
    /\ sentLog' = sentLog \cup {[by |-> c, kind |-> kind, name |-> name,
                                 initialized |-> init, q |-> nQuestions]}

Send(c, kind, name, arg) == SendAs(c, kind, name, arg, initialized)

\* the connected-guard of list_tools, call_tool, get_prompt, get_resource
Connected == session # "None"

\* variant: only the context entered last is exited
AcloseTopOnly(stack) == IF stack = <<>> THEN <<>> ELSE SubSeq(stack, 1, Len(stack) - 1)

\* await self.exit_stack.aclose(): every entered context is exited
Aclose(stack) == <<>>

\* variant: the session attribute is left as it is
SessionKept(s) == s

\* self.session = None
SessionAfterDisconnect(s) == "None"

\* disconnect()
Disconnect ==
    /\ exit_stack' = Aclose(exit_stack)
    /\ transport' = IF \E i \in 1..Len(exit_stack) : exit_stack[i] = "sse"
                    THEN "closed" ELSE transport
    /\ session' = SessionAfterDisconnect(session)
    /\ initialized' = FALSE
    /\ disconnects' = disconnects + 1

\* variant: the declared default is not copied
DefaultAbsent(p) == "None"

\* default=param_schema.get("default")
DefaultOf(p) == IF p.hasDefault THEN p.default ELSE "None"

RECURSIVE ToolParameters(_, _)
\* the ToolParameter list of one tool, in the order of the schema's properties
ToolParameters(props, required) ==
    IF props = <<>> THEN <<>>
    ELSE << [ name |-> Head(props).name,
              parameter_type |-> Head(props).type,
              description |-> Head(props).description,
              required |-> Head(props).name \in required,
              default |-> DefaultOf(Head(props)) ] >>
         \o ToolParameters(Tail(props), required)

RECURSIVE ToolDefsNewestFirst(_)
\* variant: each ToolDef is put in front of the list
ToolDefsNewestFirst(ts) ==
    IF ts = <<>> THEN <<>>
    ELSE ToolDefsNewestFirst(Tail(ts))
         \o << [ name |-> Head(ts).name, description |-> Head(ts).description,
                 parameters |-> ToolParameters(Head(ts).properties, Head(ts).required),
                 identifier |-> Head(ts).name ] >>

RECURSIVE ToolDefs(_)
\* list_tools(): one ToolDef per advertised tool
ToolDefs(ts) ==
    IF ts = <<>> THEN <<>>
    ELSE << [ name |-> Head(ts).name, description |-> Head(ts).description,
              parameters |-> ToolParameters(Head(ts).properties, Head(ts).required),
              identifier |-> Head(ts).name ] >>
         \o ToolDefs(Tail(ts))

\* TextContent(text=...).model_dump_json()
ModelDumpJson(text) ==
    <<"{\"type\":\"text\",\"text\":\"">> \o JsonEscape(text) \o <<"\",\"annotations\":null}">>

RECURSIVE DumpAll(_)
DumpAll(content) ==
    IF content = <<>> THEN <<>> ELSE <<ModelDumpJson(Head(content))>> \o DumpAll(Tail(content))

\* error_code=1 if result.isError else 0
ErrorCode(isError) == IF isError THEN 1 ELSE 0

\* the ToolInvocationResult call_tool builds from the session's result
ToolInvocationResult(r) ==
    [set |-> TRUE, content |-> Join(DumpAll(r.content), NL), error_code |-> ErrorCode(r.isError)]

\* get_resource: `for item in response: yield item` iterates the result
\* object, whose items are its fields (name, value), not response.contents
ResponseItems(r) == << <<"meta", "None">>, <<"contents", r.content>> >>

\* ------------------------------------------- the reasoning collaborator
\* openai_tools: one function per ToolDef of `tools`
OpenAiTools(ts) ==
    [i \in 1..Len(ts) |->
        [ name |-> ts[i].name, description |-> ts[i].description,
          properties |-> [j \in 1..Len(ts[i].parameters) |->
                            [ name |-> ts[i].parameters[j].name,
                              type |-> ts[i].parameters[j].parameter_type,
                              description |-> ts[i].parameters[j].description ]],
          required |-> LET req == SelectSeq(ts[i].parameters, LAMBDA q : q.required)
                       IN [j \in 1..Len(req) |-> req[j].name] ]]

\* the translate request: prompt_text, tools=openai_tools, tool_choice
TranslateRequest(text, ts) ==
    [set |-> TRUE, user |-> text, tools |-> OpenAiTools(ts), tool_choice |-> "query_db"]

\* repr() of a str: a backslash is doubled
ReprToken(t) ==
    CASE t = "\\n" -> "\\\\n"
      [] t = "near \\\"SELEKT\\\": syntax error" -> "near \\\\\"SELEKT\\\\\": syntax error"
      [] t = "table \\\"order items\\\" already exists" ->
            "table \\\\\"order items\\\\\" already exists"
      [] OTHER -> t

\* f"{result}": the repr of the ToolInvocationResult dataclass
ResultText(r) ==
    <<"ToolInvocationResult(content='">> \o [i \in 1..Len(r.content) |-> ReprToken(r.content[i])]
    \o <<"', error_code=", IF r.error_code = 0 THEN "0" ELSE "1", ")">>

\* variant: the question is put into the text as well
ExplainTextWithQuestion(q, r) ==
    <<"question: ", q, NL, "explain this query result:", NL>> \o ResultText(r)

\* f"...explain this query result:\n{result}": the user message of the explain request
ExplainText(q, r) == <<"explain this query result:", NL>> \o ResultText(r)

ExplainRequest(q, r) == [set |-> TRUE, user |-> ExplainText(q, r)]

ArgTexts ==
    {[form |-> "object", hasSql |-> TRUE, sql |-> s] : s \in SqlTexts}
    \cup {[form |-> "object", hasSql |-> FALSE, sql |-> ""],
          [form |-> "invalid", hasSql |-> FALSE, sql |-> ""],
          [form |-> "array", hasSql |-> FALSE, sql |-> ""]}

ToolNames == {"query_db", "other_tool"}

Calls == {[name |-> n, arguments |-> a] : n \in ToolNames, a \in ArgTexts}

SecondCalls ==
    {[name |-> "query_db", arguments |-> [form |-> "object", hasSql |-> TRUE, sql |-> s]]
        : s \in {"SELECT * FROM users", "SELEKT"}}

\* message.tool_calls of a reply: no call (None), one call, or two
Replies ==
    {[tool_calls |-> <<>>]}
    \cup {[tool_calls |-> <<c>>] : c \in Calls}
    \cup {[tool_calls |-> <<c, d>>] : c \in Calls, d \in SecondCalls}

\* variant: a missing sql key (sql_args.get) or a non-object is let through
ParseSqlLenient(r) ==
    IF r.tool_calls = <<>> THEN [ok |-> FALSE, err |-> "TypeError", sql |-> ""]
    ELSE LET a == r.tool_calls[1].arguments IN
         IF a.form = "invalid" THEN [ok |-> FALSE, err |-> "JSONDecodeError", sql |-> ""]
         ELSE [ok |-> TRUE, err |-> "", sql |-> a.sql]

\* json.loads(response.choices[0].message.tool_calls[0].function.arguments)["sql"]
ParseSql(r) ==
    IF r.tool_calls = <<>> THEN [ok |-> FALSE, err |-> "TypeError", sql |-> ""]
    ELSE LET a == r.tool_calls[1].arguments IN
         IF a.form = "invalid" THEN [ok |-> FALSE, err |-> "JSONDecodeError", sql |-> ""]
         ELSE IF a.form # "object" THEN [ok |-> FALSE, err |-> "TypeError", sql |-> ""]
         ELSE IF ~a.hasSql THEN [ok |-> FALSE, err |-> "KeyError", sql |-> ""]
         ELSE [ok |-> TRUE, err |-> "", sql |-> a.sql]

\* variant: the tool named by the reply's first call is invoked
ToolToInvokeNamed(r) == r.tool_calls[1].name

\* client.call_tool("query_db", ...): the tool main() invokes
ToolToInvoke(r) == "query_db"

\* ------------------------------------------------------- main(): connect
Goto(pc) == hostPc' = pc /\ exc' = exc /\ excAt' = excAt

\* variant: the exception is caught inside the loop, which goes on
RaiseAndContinue(e) ==
    /\ hostPc' = "input"
    /\ exc' = e
    /\ excAt' = [n |-> nQuestions, pc |-> hostPc]

\* an exception raised inside main()'s try: the handler after the loop gets it
Raise(e) ==
    /\ hostPc' = "except"
    /\ exc' = e
    /\ excAt' = [n |-> nQuestions, pc |-> hostPc]

\* a session operation of MCP_Client called by main(): the guard, then the send
Request(kind, name, arg, waitPc) ==
    IF ~Connected THEN Raise("ConnectionError") /\ UNCHANGED <<inbox, sentLog>>
    ELSE IF transport # "open" THEN Raise("TransportDeath") /\ UNCHANGED <<inbox, sentLog>>
    ELSE Send("host", kind, name, arg) /\ Goto(waitPc)

\* the response main() awaits has arrived
Recv(kind) ==
    /\ transport = "open"
    /\ resp["host"].kind = kind
    /\ resp' = [resp EXCEPT !["host"] = NoResp]

\* streams = await self.exit_stack.enter_async_context(sse_client(url))
HostConnectSse ==
    /\ hostPc = "start"
    /\ connectAttempts' = connectAttempts + 1
    /\ \/ /\ exit_stack' = Append(exit_stack, "sse")
          /\ transport' = "open"
          /\ Goto("c_session")
       \/ /\ UNCHANGED <<exit_stack, transport>>
          /\ Goto("c_except")
    /\ UNCHANGED <<session, initialized, tools, user_question, prompt, reply, sql_query,
                   result, reqVars, otherVars, wireVars, serverVars, nQuestions, steps,
                   disconnects, sentLog>>

\* self.session = await self.exit_stack.enter_async_context(ClientSession(*streams))
\* await self.session.initialize(): no other task runs between the assignment
\* and the sending of the initialize request
HostConnectSession ==
    /\ hostPc = "c_session"
    /\ \/ /\ exit_stack' = Append(exit_stack, "session")
          /\ session' = "Session"
          /\ IF transport = "open"
             THEN Send("host", "initialize", "", "") /\ Goto("c_init_wait")
             ELSE Goto("c_except") /\ UNCHANGED <<inbox, sentLog>>
       \/ /\ UNCHANGED <<exit_stack, session, inbox, sentLog>>
          /\ Goto("c_except")
    /\ UNCHANGED <<initialized, transport, tools, user_question, prompt, reply,
                   sql_query, result, reqVars, otherVars, resp, serverVars, nQuestions,
                   steps, connectAttempts, disconnects>>

\* await self.session.initialize() returns;
\* tools = await self.session.list_tools(): the request
HostConnectInitDone ==
    /\ hostPc = "c_init_wait"
    /\ Recv("init")
    /\ initialized' = TRUE
    /\ SendAs("host", "list_tools", "", "", TRUE)
    /\ Goto("c_verify_wait")
    /\ UNCHANGED <<session, exit_stack, transport, tools, user_question, prompt, reply,
                   sql_query, result, reqVars, otherVars, serverVars, nQuestions, steps,
                   connectAttempts, disconnects>>

\* tools = await self.session.list_tools(): the answer; connect() returns
HostConnectVerifyDone ==
    /\ hostPc = "c_verify_wait"
    /\ Recv("tools")
    /\ Goto("schema")
    /\ UNCHANGED <<clientVars, tools, user_question, prompt, reply, sql_query, result,
                   reqVars, otherVars, inbox, serverVars, histVars>>

\* an await of connect() fails because the stream broke
HostConnectAwaitFails ==
    /\ hostPc \in {"c_init_wait", "c_verify_wait"}
    /\ transport = "dead"
    /\ Goto("c_except")
    /\ UNCHANGED <<clientVars, tools, user_question, prompt, reply, sql_query, result,
                   reqVars, otherVars, wireVars, serverVars, histVars>>

\* except Exception: await self.disconnect(); raise ConnectionError(...)
HostConnectExcept ==
    /\ hostPc = "c_except"
    /\ Disconnect
    /\ Raise("ConnectionError")
    /\ UNCHANGED <<tools, user_question, prompt, reply, sql_query, result, reqVars,
                   otherVars, wireVars, serverVars, nQuestions, steps, connectAttempts,
                   sentLog>>

\* --------------------------------------------------- main(): before the loop
\* async for content in client.get_resource("db://schema"): the request
HostReadSchema ==
    /\ hostPc = "schema"
    /\ Request("read_resource", "db://schema", "", "schema_wait")
    /\ UNCHANGED <<clientVars, tools, user_question, prompt, reply, sql_query, result,
                   reqVars, otherVars, resp, serverVars, nQuestions, steps,
                   connectAttempts, disconnects>>

\* response = await self.session.read_resource(uri) returns; the async for
\* of main() receives every item get_resource yields
HostReadSchemaDone ==
    /\ hostPc = "schema_wait"
    /\ Recv("resource")
    /\ yielded' = ResponseItems(resp["host"])
    /\ Goto("list_tools")
    /\ UNCHANGED <<clientVars, tools, user_question, prompt, reply, sql_query, result,
                   translate_req, explain_req, otherVars, inbox, serverVars, histVars>>

\* the server answers the read with an error: read_resource raises
HostReadSchemaFails ==
    /\ hostPc = "schema_wait"
    /\ Recv("error")
    /\ Raise("McpError")
    /\ UNCHANGED <<clientVars, tools, user_question, prompt, reply, sql_query, result,
                   reqVars, otherVars, inbox, serverVars, histVars>>

\* tools = await client.list_tools(): the request
HostListTools ==
    /\ hostPc = "list_tools"
    /\ Request("list_tools", "", "", "list_tools_wait")
    /\ UNCHANGED <<clientVars, tools, user_question, prompt, reply, sql_query, result,
                   reqVars, otherVars, resp, serverVars, nQuestions, steps,
                   connectAttempts, disconnects>>

HostListToolsDone ==
    /\ hostPc = "list_tools_wait"
    /\ Recv("tools")
    /\ tools' = ToolDefs(resp["host"].tools)
    /\ Goto("input")
    /\ UNCHANGED <<clientVars, user_question, prompt, reply, sql_query, result,
                   reqVars, otherVars, inbox, serverVars, histVars>>

\* --------------------------------------------------------- main(): the loop
\* variant: the loop begins at the listing of the tools
LoopHeadAtListTools == "list_tools"

\* while True: the statement an iteration begins with, input()
LoopHead == "input"

Questions == {"q", "Q", "Quit"}

\* variant: the comparison without lower()
IsQuitCaseSensitive(q) == q = "q"

\* user_question.lower() == 'q'
IsQuit(q) == Lower(q) = "q"

\* user_question = input(...); if user_question.lower() == 'q': break
HostReadQuestion ==
    /\ hostPc = LoopHead
    /\ \E q \in Questions :
        /\ user_question' = q
        /\ IF IsQuit(q)
           THEN Goto("finally") /\ UNCHANGED <<nQuestions, steps>>
           ELSE /\ nQuestions < MaxQuestions
                /\ nQuestions' = nQuestions + 1
                /\ steps' = <<>>
                /\ Goto("get_prompt")
    /\ UNCHANGED <<clientVars, tools, prompt, reply, sql_query, result, reqVars, otherVars,
                   wireVars, serverVars, connectAttempts, disconnects, sentLog>>

\* prompt = await client.get_prompt("sql_prompt", question=user_question)
HostGetPrompt ==
    /\ hostPc = "get_prompt"
    /\ steps' = Append(steps, "prompt")
    /\ Request("get_prompt", "sql_prompt", user_question, "get_prompt_wait")
    /\ UNCHANGED <<clientVars, tools, user_question, prompt, reply, sql_query, result,
                   reqVars, otherVars, resp, serverVars, nQuestions, connectAttempts,
                   disconnects>>

HostGetPromptDone ==
    /\ hostPc = "get_prompt_wait"
    /\ Recv("prompt")
    /\ prompt' = resp["host"].content[1]
    /\ Goto("translate")
    /\ UNCHANGED <<clientVars, tools, user_question, reply, sql_query, result,
                   reqVars, otherVars, inbox, serverVars, histVars>>

\* response = clientOpenai.chat.completions.create(..., tools=openai_tools, tool_choice=...)
HostTranslate ==
    /\ hostPc = "translate"
    /\ steps' = Append(steps, "translate")
    /\ translate_req' = TranslateRequest(prompt, tools)
    /\ \/ \E r \in Replies : reply' = r /\ Goto("parse")
       \/ reply' = reply /\ Raise("APIError")
    /\ UNCHANGED <<clientVars, tools, user_question, prompt, sql_query, result, yielded,
                   explain_req, otherVars, wireVars, serverVars, nQuestions,
                   connectAttempts, disconnects, sentLog>>

\* sql_args = json.loads(...tool_calls[0].function.arguments); sql_query = sql_args["sql"]
HostParse ==
    /\ hostPc = "parse"
    /\ LET p == ParseSql(reply) IN
       IF p.ok THEN sql_query' = p.sql /\ Goto("call_tool")
       ELSE sql_query' = sql_query /\ Raise(p.err)
    /\ UNCHANGED <<clientVars, tools, user_question, prompt, reply, result,
                   reqVars, otherVars, wireVars, serverVars, histVars>>

\* result = await client.call_tool("query_db", {"sql": sql_query}): the request
HostCallTool ==
    /\ hostPc = "call_tool"
    /\ steps' = Append(steps, "invoke")
    /\ Request("call_tool", ToolToInvoke(reply), sql_query, "call_tool_wait")
    /\ UNCHANGED <<clientVars, tools, user_question, prompt, reply, sql_query, result,
                   reqVars, otherVars, resp, serverVars, nQuestions, connectAttempts,
                   disconnects>>

\* result = await client.call_tool(...): the answer, as a ToolInvocationResult
HostCallToolDone ==
    /\ hostPc = "call_tool_wait"
    /\ Recv("tool")
    /\ result' = ToolInvocationResult(resp["host"])
    /\ Goto("explain")
    /\ UNCHANGED <<clientVars, tools, user_question, prompt, reply, sql_query,
                   reqVars, otherVars, inbox, serverVars, histVars>>

\* explanation = clientOpenai.chat.completions.create(...)
HostExplain ==
    /\ hostPc = "explain"
    /\ steps' = Append(steps, "explain")
    /\ explain_req' = ExplainRequest(user_question, result)
    /\ \/ Goto(LoopHead)
       \/ Raise("APIError")
    /\ UNCHANGED <<clientVars, tools, user_question, prompt, reply, sql_query, result,
                   yielded, translate_req, otherVars, wireVars, serverVars, nQuestions,
                   connectAttempts, disconnects, sentLog>>

\* an await of the session fails because the stream broke
HostAwaitFails ==
    /\ hostPc \in {"schema_wait", "list_tools_wait", "get_prompt_wait", "call_tool_wait"}
    /\ transport = "dead"
    /\ Raise("TransportDeath")
    /\ UNCHANGED <<clientVars, tools, user_question, prompt, reply, sql_query, result,
                   reqVars, otherVars, wireVars, serverVars, histVars>>

\* except Exception as e: logging.error(...)
HostExcept ==
    /\ hostPc = "except"
    /\ Goto("finally")
    /\ UNCHANGED <<clientVars, tools, user_question, prompt, reply, sql_query, result,
                   reqVars, otherVars, wireVars, serverVars, histVars>>

\* finally: await client.disconnect()
HostFinally ==
    /\ hostPc = "finally"
    /\ Disconnect
    /\ Goto("done")
    /\ UNCHANGED <<tools, user_question, prompt, reply, sql_query, result, reqVars,
                   otherVars, wireVars, serverVars, nQuestions, steps, connectAttempts,
                   sentLog>>

\* ------------------------------- a second task on the same MCP_Client
\* variant: the guard lets every call through
OtherGuardOpen == TRUE

\* `if not self.session: raise ConnectionError(...)` passes
OtherGuard == Connected

\* an operation of MCP_Client run by the second task: the guard, then the send
OtherRequest(op, kind, name, arg) ==
    IF ~OtherGuard
    THEN /\ otherLog' = [op |-> op, connected |-> Connected, outcome |-> "ConnectionError"]
         /\ otherPc' = "idle"
         /\ UNCHANGED <<inbox, sentLog>>
    ELSE IF transport # "open"
    THEN /\ otherLog' = [op |-> op, connected |-> Connected, outcome |-> "TransportDeath"]
         /\ otherPc' = "idle"
         /\ UNCHANGED <<inbox, sentLog>>
    ELSE /\ Send("other", kind, name, arg)
         /\ otherLog' = [op |-> op, connected |-> Connected, outcome |-> "sent"]
         /\ otherPc' = "waiting"

\* a call the second task begins
OtherBegins(op) ==
    /\ otherPc = "idle"
    /\ otherCalls < MaxOtherCalls
    /\ otherCalls' = otherCalls + 1
    /\ otherOp' = op

\* await client.list_tools()
OtherListTools ==
    /\ OtherBegins("list_tools")
    /\ OtherRequest("list_tools", "list_tools", "", "")
    /\ UNCHANGED <<clientVars, hostVars, resp, serverVars, nQuestions, steps,
                   connectAttempts, disconnects>>

\* await client.call_tool("query_db", {"sql": ...})
OtherCallTool ==
    /\ OtherBegins("call_tool")
    /\ OtherRequest("call_tool", "call_tool", "query_db", "SELECT * FROM users")
    /\ UNCHANGED <<clientVars, hostVars, resp, serverVars, nQuestions, steps,
                   connectAttempts, disconnects>>

\* await client.get_prompt("sql_prompt", question=...)
OtherGetPrompt ==
    /\ OtherBegins("get_prompt")
    /\ OtherRequest("get_prompt", "get_prompt", "sql_prompt", "Quit")
    /\ UNCHANGED <<clientVars, hostVars, resp, serverVars, nQuestions, steps,
                   connectAttempts, disconnects>>

\* client.get_resource("db://schema"): get_resource is an async generator
\* function, the call makes the generator and runs none of the body
OtherGetResource ==
    /\ OtherBegins("get_resource")
    /\ otherPc' = "generator"
    /\ otherLog' = [op |-> "get_resource", connected |-> Connected, outcome |-> "generator"]
    /\ UNCHANGED <<clientVars, hostVars, wireVars, serverVars, histVars>>

\* the first iteration of the generator: the body runs from its first line
OtherIterate ==
    /\ otherPc = "generator"
    /\ OtherRequest("get_resource", "read_resource", "db://schema", "")
    /\ UNCHANGED <<clientVars, hostVars, otherCalls, otherOp, resp, serverVars, nQuestions,
                   steps, connectAttempts, disconnects>>

\* the answer to the second task's request arrives
OtherDone ==
    /\ otherPc = "waiting"
    /\ transport = "open"
    /\ resp["other"].kind # "none"
    /\ resp' = [resp EXCEPT !["other"] = NoResp]
    /\ otherPc' = "idle"
    /\ UNCHANGED <<clientVars, hostVars, otherCalls, otherOp, otherLog, inbox, serverVars,
                   histVars>>

\* ------------------------------------------------------- specifications
InitProgram ==
    /\ session = "None"
    /\ exit_stack = <<>>
    /\ initialized = FALSE
    /\ transport = "closed"
    /\ hostPc = "start"
    /\ tools = <<>>
    /\ user_question = ""
    /\ prompt = <<>>
    /\ reply = NoReply
    /\ sql_query = ""
    /\ result = NoResult
    /\ yielded = <<>>
    /\ translate_req = NoTranslateRequest
    /\ explain_req = NoExplainRequest
    /\ exc = "none"
    /\ excAt = [n |-> 0, pc |-> "none"]
    /\ otherPc = "idle"
    /\ otherCalls = 0
    /\ otherOp = "none"
    /\ otherLog = NoAttempt
    /\ inbox = <<>>
    /\ resp = [c \in Clients |-> NoResp]
    /\ db = FixtureStore
    /\ running = NoHandler
    /\ srvInit = {"peer"}
    /\ peerSent = 0
    /\ runs = [c \in Clients |-> NoRun]
    /\ schemaRuns = [c \in Clients |-> NoSchemaRun]
    /\ nQuestions = 0
    /\ steps = <<>>
    /\ connectAttempts = 0
    /\ disconnects = 0
    /\ sentLog = {}

\* the server of this repository: query_db is the one registered tool
Init == InitProgram /\ advertised = AdvertisedTools

\* a server with any of the tool catalogs
InitAnyCatalog == InitProgram /\ advertised \in ToolCatalogs

\* the user enters the quit signal at the first prompt
HostQuits == HostReadQuestion /\ IsQuit(user_question')

\* main() from its start to the first prompt and from the quit signal to its
\* end, the client it drives, the server and the stream
StartupNext ==
    \/ HostConnectSse \/ HostConnectSession \/ HostConnectInitDone
    \/ HostConnectVerifyDone \/ HostConnectAwaitFails
    \/ HostConnectExcept
    \/ HostReadSchema \/ HostReadSchemaDone \/ HostReadSchemaFails
    \/ HostListTools \/ HostListToolsDone
    \/ HostQuits
    \/ HostAwaitFails \/ HostExcept \/ HostFinally
    \/ ServerInitialize \/ ServerListTools \/ ServerReadResource
    \/ SchemaConnect \/ SchemaTables \/ SchemaTable \/ SchemaReturn
    \/ TransportDies

\* the iterations of main()'s loop and what serves them
LoopNext ==
    \/ HostReadQuestion \/ HostGetPrompt \/ HostGetPromptDone \/ HostTranslate
    \/ HostParse \/ HostCallTool \/ HostCallToolDone \/ HostExplain
    \/ ServerGetPrompt \/ ServerCallTool
    \/ QueryConnect \/ QueryCursor \/ QueryExecute \/ QueryFetchall \/ QueryFinally

\* main(), the client it drives, the server and the stream
ProgramNext == StartupNext \/ LoopNext

Next == ProgramNext \/ PeerSend \/ ServerPing

\* the host program, its server and another session's traffic
Spec == Init /\ [][Next]_vars

\* the start and the end of the host program against a server with any catalog
SpecCatalog == InitAnyCatalog /\ [][StartupNext \/ PeerSend \/ ServerPing]_vars

\* the handlers of the server, called by another session
ServerNext ==
    \/ PeerRequest
    \/ ServerReadResource \/ ServerCallTool
    \/ SchemaConnect \/ SchemaTables \/ SchemaTable \/ SchemaReturn
    \/ QueryConnect \/ QueryCursor \/ QueryExecute \/ QueryFetchall \/ QueryFinally

\* the server and its store, with another session reading and querying
SpecServer == Init /\ [][ServerNext]_vars

NextConcurrent ==
    \/ StartupNext
    \/ ServerGetPrompt \/ ServerCallTool
    \/ QueryConnect \/ QueryCursor \/ QueryExecute \/ QueryFetchall \/ QueryFinally
    \/ OtherListTools \/ OtherCallTool \/ OtherGetPrompt \/ OtherGetResource
    \/ OtherIterate \/ OtherDone

\* the host program whose user quits at the first prompt, and its server,
\* with a second task that calls the same MCP_Client while main() runs
SpecConcurrent == Init /\ [][NextConcurrent]_vars

\* ================================================================ claims
InSteps(x) == \E i \in 1..Len(steps) : steps[i] = x

AllSteps == <<"prompt", "translate", "invoke", "explain">>

IsPrefix(s, t) == Len(s) <= Len(t) /\ \A i \in 1..Len(s) : s[i] = t[i]

TranslationFailures == {"TypeError", "JSONDecodeError", "KeyError"}

LoopPcs ==
    {"get_prompt", "get_prompt_wait", "translate", "parse", "call_tool",
     "call_tool_wait", "explain"}

\* C1: a query whose execution raises makes query_db return (not raise) a text
\* that begins with "Error: ", and call_tool then returns error_code 0 to
\* main(), with no exception and the session still set.
C1_FailedQueryIsSucceededResult ==
    /\ \A c \in Clients :
          (runs[c].done /\ runs[c].faultAt = "execute") =>
              /\ runs[c].raised = ""
              /\ Len(runs[c].value) > 0
              /\ Head(runs[c].value) = "Error: "
    /\ (hostPc = "explain" /\ runs["host"].faultAt = "execute") =>
          /\ result.set
          /\ result.error_code = 0
          /\ exc = "none"
          /\ session = "Session"

C1_Witness ==
    /\ hostPc = "explain"
    /\ runs["host"].done
    /\ runs["host"].sql = "SELEKT"
    /\ runs["host"].faultAt = "execute"
    /\ result.error_code = 0

\* C2: whatever step of query_db the store fails at (connect, cursor, execute,
\* fetchall), the handler ends by returning a text, never by raising.
C2_EveryStoreFaultIsFolded ==
    \A c \in Clients : runs[c].done => runs[c].raised = ""

\* the call_tool requests of main() that are posted and not yet read
HostToolPosted == {i \in 1..Len(inbox) : inbox[i].from = "host" /\ inbox[i].kind = "call_tool"}

\* C3: a call_tool of main() for a question is preceded, for the same question,
\* by a reply whose first call has arguments that parse to an object with a
\* sql key; a reply without a call or with malformed arguments sends nothing.
C3_InvokeOnlyAfterParsedSql ==
    /\ InSteps("invoke") =>
          /\ InSteps("translate")
          /\ reply.tool_calls # <<>>
          /\ reply.tool_calls[1].arguments.form = "object"
          /\ reply.tool_calls[1].arguments.hasSql
          /\ sql_query = reply.tool_calls[1].arguments.sql
    /\ HostToolPosted # {} => InSteps("invoke")
    /\ exc \in TranslationFailures => ~InSteps("invoke") /\ HostToolPosted = {}

C3_Witness ==
    /\ exc = "KeyError"
    /\ hostPc = "done"
    /\ nQuestions = 2
    /\ reply.tool_calls # <<>>
    /\ ~InSteps("invoke")

\* C4 (as claimed): after a translation failure in one iteration the loop goes
\* on: main() is not in its handler, not finished, and the session is still set.
C4_LocalFaultKeepsLoopRunning ==
    (exc \in TranslationFailures /\ excAt.pc \in LoopPcs) =>
        /\ hostPc \notin {"except", "finally", "done"}
        /\ session = "Session"

\* C4 (amended): an exception raised in an iteration of the loop is caught by
\* main()'s handler after the loop: the loop is left, no further question is
\* read, and main() ends with the client disconnected.
C4_LoopFaultEndsLoop ==
    (exc # "none" /\ excAt.pc \in LoopPcs) =>
        /\ hostPc \in {"except", "finally", "done"}
        /\ nQuestions = excAt.n
        /\ hostPc = "done" => (session = "None" /\ exit_stack = <<>>)

C4_Witness ==
    /\ exc = "JSONDecodeError"
    /\ excAt.pc = "parse"
    /\ hostPc = "done"
    /\ session = "None"
    /\ nQuestions = 1

SessionOps == {"list_tools", "call_tool", "get_prompt", "read_resource"}

\* C5: no list_tools, call_tool, get_prompt or read_resource request is sent
\* before session.initialize() has completed, also when a second task calls
\* the client while connect() runs.
C5_NoOperationBeforeInitialized ==
    \A r \in sentLog : r.kind \in SessionOps => r.initialized

\* C6: when a step of connect() fails, connect() raises ConnectionError after
\* one attempt and leaves the client closed: session None, every entered
\* context exited, the stream closed.
C6_FailedConnectClosesClient ==
    /\ connectAttempts <= 1
    /\ hostPc = "c_except" => exc = "none"
    /\ excAt.pc = "c_except" =>
          /\ exc = "ConnectionError"
          /\ hostPc \in {"except", "finally", "done"}
          /\ session = "None"
          /\ exit_stack = <<>>
          /\ transport = "closed"
          /\ ~initialized
          /\ connectAttempts = 1

C6_Witness ==
    /\ exc = "ConnectionError"
    /\ hostPc = "except"
    /\ session = "None"
    /\ \E r \in sentLog : r.kind = "initialize"
    /\ \A r \in sentLog : r.kind # "list_tools"

\* C8: a message that waits at the server while query_db runs can be read and
\* dispatched at once: the read loop is not blocked by the running handler.
C8_DispatchNotBlockedByHandler ==
    (running.pc # "none" /\ inbox # <<>>) => ENABLED ServerDispatch

\* main()'s tool invocations in flight: posted, running, or answered and unread
HostToolInFlight ==
    Cardinality(HostToolPosted)
    + (IF running.pc # "none" /\ running.from = "host" THEN 1 ELSE 0)
    + (IF resp["host"].kind = "tool" THEN 1 ELSE 0)

HostRequestsPending ==
    Cardinality({i \in 1..Len(inbox) : inbox[i].from = "host"})
    + (IF running.pc # "none" /\ running.from = "host" THEN 1 ELSE 0)
    + (IF resp["host"].kind # "none" THEN 1 ELSE 0)

\* C9: per question the steps are prompt, translate, invoke, explain in this
\* order, each at most once; a question is read only when the previous
\* iteration is complete and nothing of main() is pending; at most one tool
\* invocation is in flight; after q or Q no further step is taken.
C9_StepOrderAndQuit ==
    /\ [](/\ IsPrefix(steps, AllSteps)
          /\ HostToolInFlight <= 1
          /\ hostPc \in LoopPcs => Lower(user_question) # "q"
          /\ Lower(user_question) = "q" => hostPc \in {"finally", "done"})
    /\ [][/\ nQuestions' # nQuestions =>
                /\ steps = (IF nQuestions = 0 THEN <<>> ELSE AllSteps)
                /\ HostRequestsPending = 0
                /\ steps' = <<>>
          /\ Lower(user_question) = "q" => (steps' = steps /\ sentLog' = sentLog)]_vars

C9_Witness ==
    /\ hostPc = "done"
    /\ user_question = "Q"
    /\ steps = AllSteps
    /\ nQuestions = 2
    /\ exc = "none"

\* C10 (as claimed): a tool is invoked only for a reply with exactly one call,
\* which names query_db and carries a sql argument.
C10_InvokeOnlyOnSingleQueryDbCall ==
    InSteps("invoke") =>
        /\ Len(reply.tool_calls) = 1
        /\ reply.tool_calls[1].name = "query_db"
        /\ reply.tool_calls[1].arguments.hasSql

\* C10 (amended): main() invokes query_db, and only query_db, with the sql of
\* the reply's first call, whenever that call's arguments parse to an object
\* with a sql key; neither the number of calls nor the called tool's name is
\* checked; a reply without a call invokes nothing.
C10_InvokesQueryDbWithFirstCallSql ==
    /\ \A r \in sentLog : r.kind = "call_tool" => r.name = "query_db"
    /\ \A i \in HostToolPosted :
          inbox[i].name = "query_db" /\ inbox[i].arg = reply.tool_calls[1].arguments.sql
    /\ (InSteps("translate") /\ hostPc \in {"call_tool", "call_tool_wait", "explain"}) =>
          /\ Len(reply.tool_calls) >= 1
          /\ reply.tool_calls[1].arguments.hasSql
    /\ (InSteps("translate") /\ hostPc # "parse" /\ reply.tool_calls = <<>>) =>
          ~InSteps("invoke")

C10_Witness ==
    /\ hostPc = "explain"
    /\ Len(reply.tool_calls) = 2
    /\ reply.tool_calls[1].name = "other_tool"
    /\ result.set
    /\ runs["host"].sql = reply.tool_calls[1].arguments.sql

\* C11 (as claimed): for every question a list_tools request of main() is sent
\* after the question is read and before the collaborator is asked to translate.
C11_ListToolsForEveryQuestion ==
    InSteps("translate") =>
        \E r \in sentLog : r.by = "host" /\ r.kind = "list_tools" /\ r.q = nQuestions

\* C11 (amended): main() lists the tools once, after connect() and the schema
\* read and before the first question is read; no list_tools request is sent
\* once a question has been read, and the translate request of every question
\* carries the schemas of that one listing.
C11_ToolsListedOnceBeforeLoop ==
    /\ \A r \in sentLog : (r.by = "host" /\ r.kind = "list_tools") => r.q = 0
    /\ InSteps("translate") =>
          /\ translate_req.set
          /\ translate_req.user = prompt
          /\ \E r \in sentLog : r.by = "host" /\ r.kind = "list_tools" /\ r.q = 0
          /\ Len(translate_req.tools) = Len(advertised)
          /\ \A i \in 1..Len(advertised) :
                /\ translate_req.tools[i].name = advertised[i].name
                /\ Len(translate_req.tools[i].properties) = Len(advertised[i].properties)
                /\ \A j \in 1..Len(advertised[i].properties) :
                      translate_req.tools[i].properties[j].name
                          = advertised[i].properties[j].name

C11_Witness ==
    /\ hostPc = "parse"
    /\ nQuestions = 2
    /\ InSteps("translate")
    /\ translate_req.set
    /\ Len(translate_req.tools) = 1

Contains(text, t) == \E i \in 1..Len(text) : text[i] = t

IsSuffix(s, t) ==
    /\ Len(s) <= Len(t)
    /\ \A i \in 1..Len(s) : s[i] = t[Len(t) - Len(s) + i]

\* C12 (as claimed): the explain request of an iteration contains that
\* iteration's user question as well as that iteration's call_tool result.
C12_ExplainCarriesQuestionAndResult ==
    (InSteps("explain") /\ hostPc = LoopHead) =>
        /\ Contains(explain_req.user, user_question)
        /\ IsSuffix(ResultText(result), explain_req.user)

\* C12 (amended): the explain request of an iteration contains that
\* iteration's call_tool result (the text of the ToolInvocationResult) after a
\* fixed instruction, and does not contain the user question.
C12_ExplainCarriesResultOnly ==
    InSteps("explain") =>
        /\ explain_req.set
        /\ result.set
        /\ IsSuffix(ResultText(result), explain_req.user)
        /\ Len(explain_req.user) = Len(ResultText(result)) + 2
        /\ (hostPc = LoopHead \/ excAt.pc = "explain") =>
              ~Contains(explain_req.user, user_question)

C12_Witness ==
    /\ hostPc = "input"
    /\ InSteps("explain")
    /\ nQuestions = 2
    /\ user_question = "Quit"
    /\ explain_req.set
    /\ runs["host"].sql = "SELECT * FROM users"
    /\ runs["host"].faultAt = "none"

SameItems(s, t) == Len(s) = Len(t) /\ \A i \in 1..Len(s) : s[i] = t[i]

\* C13: the items main() receives from get_resource("db://schema") are the
\* lines get_schema produced, one item per line and in order; and when the
\* stream breaks before the read completes, main() gets an exception, not a
\* normal end of the iteration.
C13_YieldsProducerChunks ==
    /\ (hostPc = "list_tools" /\ schemaRuns["host"].done) =>
          SameItems(yielded, schemaRuns["host"].value)
    /\ (excAt.pc = "schema_wait") => (exc # "none" /\ yielded = <<>>)

SchemaPcs == {"s_connect", "s_tables", "s_table"}

\* C14: a read of db://schema leaves the store as it was: while get_schema
\* runs, and when it has returned or raised, the tables, columns and rows are
\* those of the moment it was entered.
C14_SchemaReadLeavesStore ==
    /\ running.pc \in SchemaPcs => db = running.before
    /\ \A c \in Clients :
          schemaRuns[c].done => schemaRuns[c].after = schemaRuns[c].before

C14_Witness ==
    /\ schemaRuns["peer"].done
    /\ schemaRuns["peer"].raised # ""
    /\ schemaRuns["peer"].faultAt = "pragma"
    /\ Len(schemaRuns["peer"].before) = 3
    /\ db = schemaRuns["peer"].before

EscapedBreaks(text) == Cardinality({i \in 1..Len(text) : text[i] = "\\n"})

\* C15 (as claimed): for a query that returns n >= 1 rows, call_tool returns
\* error_code 0 and a content of exactly n lines.
C15_ContentHasOneLinePerRow ==
    (hostPc = "explain" /\ runs["host"].faultAt = "none" /\ Len(runs["host"].rows) >= 1) =>
        /\ result.error_code = 0
        /\ LineCount(result.content) = Len(runs["host"].rows)

\* C15 (amended): for a query that returns n >= 1 rows, the text query_db
\* returns has exactly n lines, one per row in result order (3 for
\* SELECT * FROM users on the fixture store); call_tool returns error_code 0
\* and, as content, the JSON text of the one content item: a single line, in
\* which the n - 1 line breaks between the rows are escaped.
C15_RowsAreLinesOfTextEscapedInContent ==
    /\ \A c \in Clients :
          (runs[c].done /\ runs[c].faultAt = "none" /\ Len(runs[c].rows) >= 1) =>
              /\ runs[c].raised = ""
              /\ LineCount(runs[c].value) = Len(runs[c].rows)
              /\ \A k \in 1..Len(runs[c].rows) : runs[c].value[4 * k - 2] = runs[c].rows[k]
              /\ (runs[c].sql = "SELECT * FROM users") => Len(runs[c].rows) = 3
    /\ (hostPc = "explain" /\ runs["host"].faultAt = "none" /\ Len(runs["host"].rows) >= 1) =>
          /\ result.error_code = 0
          /\ LineCount(result.content) = 1
          /\ EscapedBreaks(result.content) = Len(runs["host"].rows) - 1

C15_Witness ==
    /\ hostPc = "explain"
    /\ runs["host"].sql = "SELECT * FROM users"
    /\ runs["host"].faultAt = "none"
    /\ Len(runs["host"].rows) = 3
    /\ result.error_code = 0
    /\ LineCount(result.content) = 1

RECURSIVE SchemaLinesOf(_)
\* the lines the claim describes for a catalog: per table a header line and
\* then a line per column
SchemaLinesOf(d) ==
    IF d = <<>> THEN <<>>
    ELSE <<HeaderLine(Head(d).name)>> \o ColumnLines(Head(d).cols) \o SchemaLinesOf(Tail(d))

RECURSIVE SchemaLength(_)
SchemaLength(d) == IF d = <<>> THEN 0 ELSE 1 + Len(Head(d).cols) + SchemaLength(Tail(d))

\* C16: for every catalog of the store, a read of db://schema that the store
\* itself does not fail produces the header line and the column lines of
\* every table of the catalog at the time of the read, in order.
C16_SchemaListsEveryTable ==
    \A c \in Clients :
        (schemaRuns[c].done /\ schemaRuns[c].faultAt \notin {"connect", "tables"}) =>
            /\ schemaRuns[c].raised = ""
            /\ Len(schemaRuns[c].value) = SchemaLength(schemaRuns[c].before)
            /\ SameItems(schemaRuns[c].value, SchemaLinesOf(schemaRuns[c].before))

\* main() has the list list_tools returned
ToolsListed == hostPc = "input" \/ (hostPc \in {"finally", "done"} /\ exc = "none")

\* C17 (as claimed): every ToolParameter list_tools builds has no default when
\* it is required, whatever schema the server advertises.
C17_RequiredHasNoDefault ==
    \A i \in 1..Len(tools) : \A j \in 1..Len(tools[i].parameters) :
        tools[i].parameters[j].required => tools[i].parameters[j].default = "None"

\* C17 (amended): list_tools copies the schema: required is true exactly when
\* the property is listed in "required", default is the declared default (None
\* when none is declared), each independently of the other; so a required
\* parameter has a default exactly when the schema declares one for it, and
\* has none for the schema of query_db.
C17_ParametersCopyTheSchema ==
    ToolsListed =>
        /\ Len(tools) = Len(advertised)
        /\ \A i \in 1..Len(tools) :
              /\ Len(tools[i].parameters) = Len(advertised[i].properties)
              /\ \A j \in 1..Len(tools[i].parameters) :
                    LET q == tools[i].parameters[j]
                        p == advertised[i].properties[j]
                    IN /\ q.required = (p.name \in advertised[i].required)
                       /\ q.default = (IF p.hasDefault THEN p.default ELSE "None")
                       /\ (q.required /\ q.default # "None")
                             <=> (p.name \in advertised[i].required /\ p.hasDefault)
                       /\ advertised[i].name = "query_db" => (q.required /\ q.default = "None")

C17_Witness ==
    /\ hostPc = "input"
    /\ Len(tools) = 2
    /\ tools[1].name = "strict"
    /\ tools[1].parameters[1].required
    /\ tools[1].parameters[1].default = "fast"
    /\ tools[2].parameters[2].default = "10"

\* C18: list_tools returns one ToolDef per advertised tool, in the server's
\* order, none twice and none left out, with identifier equal to the name and
\* the parameters in the order of the schema's properties.
C18_ToolDefsMatchAdvertised ==
    ToolsListed =>
        /\ Len(tools) = Len(advertised)
        /\ \A i \in 1..Len(tools) :
              /\ tools[i].name = advertised[i].name
              /\ tools[i].identifier = advertised[i].name
              /\ tools[i].description = advertised[i].description
              /\ Len(tools[i].parameters) = Len(advertised[i].properties)
              /\ \A j \in 1..Len(tools[i].parameters) :
                    /\ tools[i].parameters[j].name = advertised[i].properties[j].name
                    /\ tools[i].parameters[j].parameter_type = advertised[i].properties[j].type
        /\ \A i, k \in 1..Len(tools) : tools[i].identifier = tools[k].identifier => i = k

C18_Witness ==
    /\ hostPc = "input"
    /\ Len(tools) = 2
    /\ tools[1].identifier = "export"
    /\ tools[2].identifier = "query_db"
    /\ Len(tools[1].parameters) = 2
    /\ tools[1].parameters[1].name = "table"
    /\ tools[1].parameters[2].name = "limit"

\* a step in which the second task evaluates the connected-guard of an
\* operation: the call of a coroutine, the first iteration of the generator
OtherGuardStep ==
    \/ otherCalls' # otherCalls /\ otherOp' # "get_resource"
    \/ otherPc = "generator" /\ otherPc' # "generator"

\* C19: an operation of the client begun while it is not connected (before
\* connect, after a failed connect, after disconnect) ends with ConnectionError
\* and sends nothing; calling get_resource raises nothing and sends nothing,
\* its guard is evaluated at the first iteration.
C19_NotConnectedFailsWithoutRequest ==
    /\ [](/\ otherLog.outcome = "ConnectionError" => ~otherLog.connected
          /\ (otherLog.outcome \in {"sent", "TransportDeath"}) => otherLog.connected
          /\ \A r \in sentLog : r.by = "other" => r.kind \in SessionOps
          /\ otherPc = "generator" =>
                (otherLog.op = "get_resource" /\ otherLog.outcome = "generator"))
    /\ [][/\ (OtherGuardStep /\ session = "None") =>
                /\ otherLog'.outcome = "ConnectionError"
                /\ otherLog'.op = otherOp'
                /\ otherPc' = "idle"
                /\ inbox' = inbox
                /\ sentLog' = sentLog
          /\ (otherCalls' # otherCalls /\ otherOp' = "get_resource") =>
                /\ otherLog'.outcome = "generator"
                /\ otherPc' = "generator"
                /\ inbox' = inbox
                /\ sentLog' = sentLog]_vars

C19_Witness ==
    /\ hostPc = "done"
    /\ exc = "none"
    /\ session = "None"
    /\ otherLog.op = "get_resource"
    /\ otherLog.outcome = "ConnectionError"
    /\ otherPc = "idle"
    /\ \A r \in sentLog : r.by # "other"

\* C20: main() ends, on every path, with the client disconnected (session
\* None, every context exited, the stream closed) and sends nothing after
\* that; every exit leads to the finally clause; after a failed connect
\* disconnect() has run in connect() and runs again in the finally clause,
\* where it changes nothing of the client and raises nothing.
C20_EveryExitDisconnects ==
    /\ [](/\ hostPc = "done" =>
                /\ session = "None"
                /\ exit_stack = <<>>
                /\ ~initialized
                /\ transport = "closed"
                /\ disconnects = (IF excAt.pc = "c_except" THEN 2 ELSE 1)
          /\ (exc # "none" \/ Lower(user_question) = "q") =>
                hostPc \in {"except", "finally", "done"}
          /\ hostPc = "except" => ENABLED HostExcept
          /\ hostPc = "finally" => ENABLED HostFinally
          /\ (excAt.pc = "c_except" /\ hostPc \in {"except", "finally"}) =>
                (disconnects = 1 /\ session = "None" /\ exit_stack = <<>>))
    /\ [][/\ hostPc = "done" => (sentLog' = sentLog /\ hostPc' = "done")
          /\ (hostPc = "finally" /\ hostPc' # "finally" /\ excAt.pc = "c_except") =>
                /\ disconnects' = 2
                /\ clientVars' = clientVars
                /\ exc' = exc
                /\ hostPc' = "done"]_vars

C20_Witness ==
    /\ hostPc = "done"
    /\ excAt.pc = "c_except"
    /\ exc = "ConnectionError"
    /\ disconnects = 2
    /\ session = "None"
    /\ \E r \in sentLog : r.kind = "initialize"

\* C21: every connection to the store that a handler opened is closed when the
\* handler finishes, on every path: query_db after a result and after a store
\* fault, get_schema after its return and after the catalog query or a
\* PRAGMA table_info query raised; no finished run leaves a connection open.
C21_EveryConnectionClosed ==
    \A c \in Clients :
        /\ runs[c].done => runs[c].conn # "open"
        /\ schemaRuns[c].done => schemaRuns[c].conn # "open"

\* the part of C21 about query_db alone: its finally clause closes whatever
\* connection was opened
C21_QueryDbClosesItsConnection ==
    \A c \in Clients :
        runs[c].done => (runs[c].conn = "closed" <=> runs[c].faultAt # "connect")

====
